---- MODULE Spec2Model ----
(***************************************************************************)
(* State-machine model of the cataract-detection inference service         *)
(* (src/app.py): model loading at startup, the /health and /predict        *)
(* handlers, and the per-model TFLite interpreters the handlers share.     *)
(*                                                                         *)
(* Numbers.  A score is an integer count of 1/Scale (1e-5).  Arithmetic on *)
(* scores is exact; round(x, k) is rounding to the nearest multiple of     *)
(* 10^-k with ties to even.  "prediction" is held in units of 1e-4 and     *)
(* "confidence" in units of 0.01 percent, the precision the code rounds    *)
(* them to.                                                                *)
(*                                                                         *)
(* Images.  The interpreters are deterministic functions of the uploaded   *)
(* bytes, so an upload is represented by what it makes the code do: it is  *)
(* empty, or it cannot be decoded, or it decodes and each model's invoke() *)
(* either raises or leaves a given score in the output tensor.             *)
(***************************************************************************)
EXTENDS Integers, Sequences, FiniteSets

VARIABLES
    files,            \* disk: per configured model, the state of its file
    ALLOW_TENSORFLOW_FALLBACK,  \* app.py:35, read from the environment
    _loaded_models,   \* app.py:41, the registry (sequence of model names)
    phase,            \* "created" | "serving" | "failed" (ASGI lifespan)
    startupError,     \* the exception startup() ended with, or "none"
    inTensor,         \* per interpreter: the input tensor last set
    outTensor,        \* per interpreter: the output tensor, <<>> when unset
    running,          \* the request whose coroutine holds the event loop, 0 if idle
    pc,               \* per request: position of its predict() coroutine
    image,            \* per request: the uploaded bytes
    idx,              \* per request: position of the loop of _predict
    predictions,      \* per request: local of _predict
    models_used,      \* per request: local of _predict
    response,         \* per request: the HTTP response, once sent
    healthReply       \* the last reply of /health

vars == <<files, ALLOW_TENSORFLOW_FALLBACK, _loaded_models, phase, startupError,
          inTensor, outTensor, running, pc, image, idx, predictions,
          models_used, response, healthReply>>

-----------------------------------------------------------------------------
(* Bounds and units *)

NumRequests == 2

Scale == 10^5

\* Score units in 1e-4, the precision of round(x, 4) of a score and of
\* round(x, 2) of a percentage
Unit4 == Scale \div 10^4

Requests == 1..NumRequests

-----------------------------------------------------------------------------
(* Configuration *)

MODEL_PATHS == <<"ResNet50", "DenseNet121">>

Models == {MODEL_PATHS[i] : i \in 1..Len(MODEL_PATHS)}

\* A model file is missing, or present and loadable by tflite-runtime, or
\* present and loadable by tensorflow only, or present and loadable by neither.
FileStates == {"missing", "tflite", "tensorflow", "corrupt"}

\* The decision boundary 0.7
Threshold == 7 * (Scale \div 10)

-----------------------------------------------------------------------------
(* Uploads *)

Raises == <<>>

WideScores == {0 - 20000, 0, 12345, 40000, 69999, 70000, 80000, 99995, 100000, 130000}

ServerScores == {40000, 80000}

OutcomesOf(S) == {Raises} \cup {<<s>> : s \in S}

EmptyImage == [kind |-> "Empty", out |-> [m \in Models |-> Raises]]

CorruptImage == [kind |-> "Corrupt", out |-> [m \in Models |-> Raises]]

ValidImages(S) == {[kind |-> "Valid", out |-> o] : o \in [Models -> OutcomesOf(S)]}

\* What the concurrent clients upload, and what the single client uploads
Uploads == {EmptyImage, CorruptImage} \cup ValidImages(ServerScores)

WideUploads == {EmptyImage, CorruptImage} \cup ValidImages(WideScores)

NoImage == [kind |-> "None", out |-> [m \in Models |-> Raises]]

ContentTypes == {"absent", "image/", "text/"}

-----------------------------------------------------------------------------
(* Loading: _create_interpreter and _load_models *)

\* The mutant of Exists: the existence check is lost.
ExistsAlways(fs) == TRUE

\* model_path.exists()
Exists(fs) == fs # "missing"

\* _create_interpreter: the backend that loaded the file, or "RuntimeError"
\* when tflite-runtime fails and tensorflow is not permitted or fails too.
CreateInterpreter(fs, allowFallback) ==
    IF fs = "tflite" THEN "tflite-runtime"
    ELSE IF allowFallback /\ fs = "tensorflow" THEN "tensorflow"
    ELSE "RuntimeError"

\* The for loop of _load_models from position i with the local list
\* loaded_models = acc: a missing file is skipped, a file that cannot be loaded
\* ends the loop with the exception of _create_interpreter.
RECURSIVE LoadLoop(_, _, _, _)
LoadLoop(i, acc, fs, allowFallback) ==
    IF i > Len(MODEL_PATHS) THEN [error |-> "none", loaded |-> acc]
    ELSE IF ~Exists(fs[MODEL_PATHS[i]]) THEN LoadLoop(i + 1, acc, fs, allowFallback)
    ELSE IF CreateInterpreter(fs[MODEL_PATHS[i]], allowFallback) = "RuntimeError"
         THEN [error |-> "CouldNotLoad", loaded |-> acc]
    ELSE LoadLoop(i + 1, Append(acc, MODEL_PATHS[i]), fs, allowFallback)

\* The mutant of LoadModels: the loop appends to the global list directly.
LoadModelsAppendsGlobal(old, fs, allowFallback) ==
    LET r == LoadLoop(1, <<>>, fs, allowFallback) IN
    IF r.error # "none" THEN [error |-> r.error, registry |-> r.loaded]
    ELSE IF r.loaded = <<>> THEN [error |-> "NoModelsLoaded", registry |-> r.loaded]
    ELSE [error |-> "none", registry |-> r.loaded]

\* _load_models called with _loaded_models = old: the exception it ends with
\* ("none" when it returns) and the value of _loaded_models it leaves.
LoadModels(old, fs, allowFallback) ==
    LET r == LoadLoop(1, <<>>, fs, allowFallback) IN
    IF r.error # "none" THEN [error |-> r.error, registry |-> old]
    ELSE IF r.loaded = <<>> THEN [error |-> "NoModelsLoaded", registry |-> old]
    ELSE [error |-> "none", registry |-> r.loaded]

-----------------------------------------------------------------------------
(* Initial state: the module has been imported, startup has not run *)

NoResponse == [status |-> 0, detail |-> "none"]

NoHealth == [status |-> "none", modelsLoaded |-> <<>>, ensembleMode |-> FALSE,
             tensorflowFallbackEnabled |-> FALSE]

Init ==
    /\ files \in [Models -> FileStates]
    /\ ALLOW_TENSORFLOW_FALLBACK \in BOOLEAN
    /\ _loaded_models = <<>>
    /\ phase = "created"
    /\ startupError = "none"
    /\ inTensor = [m \in Models |-> NoImage]
    /\ outTensor = [m \in Models |-> <<>>]
    /\ running = 0
    /\ pc = [r \in Requests |-> "new"]
    /\ image = [r \in Requests |-> NoImage]
    /\ idx = [r \in Requests |-> 0]
    /\ predictions = [r \in Requests |-> <<>>]
    /\ models_used = [r \in Requests |-> <<>>]
    /\ response = [r \in Requests |-> NoResponse]
    /\ healthReply = NoHealth

reqVars == <<running, pc, image, idx, predictions, models_used, response>>

tensorVars == <<inTensor, outTensor>>

envVars == <<files, ALLOW_TENSORFLOW_FALLBACK>>

\* startup(): runs _load_models once, before the server accepts requests; if
\* it raises, the lifespan startup fails and the server exits without serving.
Startup ==
    /\ phase = "created"
    /\ LET r == LoadModels(_loaded_models, files, ALLOW_TENSORFLOW_FALLBACK) IN
        /\ _loaded_models' = r.registry
        /\ startupError' = r.error
        /\ phase' = IF r.error = "none" THEN "serving" ELSE "failed"
    /\ UNCHANGED <<envVars, tensorVars, reqVars, healthReply>>

\* health(): a coroutine without await, so it runs when the event loop is idle
\* and to completion.
Health ==
    /\ phase = "serving"
    /\ running = 0
    /\ healthReply' = [status |-> "healthy",
                       modelsLoaded |-> _loaded_models,
                       ensembleMode |-> Len(_loaded_models) > 1,
                       tensorflowFallbackEnabled |-> ALLOW_TENSORFLOW_FALLBACK]
    /\ UNCHANGED <<envVars, _loaded_models, phase, startupError, tensorVars, reqVars>>

-----------------------------------------------------------------------------
(* Arithmetic of _predict *)

RECURSIVE Sum(_)
Sum(seq) == IF seq = <<>> THEN 0 ELSE Head(seq) + Sum(Tail(seq))

\* round(): num/den (den > 0) to the nearest integer, ties to even
RoundHalfEven(num, den) ==
    LET q == num \div den
        rem == num - q * den
    IN  IF 2 * rem < den THEN q
        ELSE IF 2 * rem > den THEN q + 1
        ELSE IF q % 2 = 0 THEN q ELSE q + 1

\* The mutant of IsCataract: the boundary itself counts as "Cataract".
IsCataractInclusive(total, n) == total <= Threshold * n

\* avg_prediction < 0.7, for avg_prediction = total / n in units of 1/Scale
IsCataract(total, n) == total < Threshold * n

\* The mutant of ConfidenceOf: the "Cataract" branch forgets the complement.
ConfidenceNoComplement(total, n) == RoundHalfEven(total, n * Unit4)

\* round(confidence, 2), in units of 0.01 percent
ConfidenceOf(total, n) ==
    IF IsCataract(total, n)
    THEN RoundHalfEven(n * Scale - total, n * Unit4)
    ELSE RoundHalfEven(total, n * Unit4)

\* len(models_used) > 1
EnsembleModeOf(used) == Len(used) > 1

\* The mutant of AvgTimesTenThousand: the mean is taken over the configured
\* models instead of the collected predictions.
AvgOverConfigured(preds) == RoundHalfEven(Sum(preds), Len(MODEL_PATHS) * Unit4)

\* round(avg_prediction, 4), in units of 1e-4
AvgTimesTenThousand(preds) == RoundHalfEven(Sum(preds), Len(preds) * Unit4)

\* The dict _predict returns for non-empty predictions (inferenceTime, which
\* predict() adds from the clock, is left out).
ResultOf(preds, used) ==
    [status |-> 200,
     detail |-> "ok",
     prediction |-> AvgTimesTenThousand(preds),
     className |-> IF IsCataract(Sum(preds), Len(preds)) THEN "Cataract" ELSE "Normal",
     confidence |-> ConfidenceOf(Sum(preds), Len(preds)),
     modelsUsed |-> used,
     ensembleMode |-> EnsembleModeOf(used)]

\* An exception that leaves the handler: the framework answers 500.
ServerError(what) == [status |-> 500, detail |-> what]

\* An HTTPException(status_code=400)
BadRequest(what) == [status |-> 400, detail |-> what]

-----------------------------------------------------------------------------
(* _predict run from start to end with nothing in between *)

\* The loop of _predict from position i: _run_inference raises when the bytes
\* cannot be decoded or invoke fails, and the exception leaves _predict.
RECURSIVE PredictLoop(_, _, _, _, _)
PredictLoop(i, preds, used, reg, img) ==
    IF i > Len(reg) THEN ResultOf(preds, used)
    ELSE IF img.kind = "Corrupt" THEN ServerError("cannot identify image file")
    ELSE IF img.out[reg[i]] = Raises THEN ServerError("invoke failed")
    ELSE PredictLoop(i + 1, Append(preds, img.out[reg[i]][1]), Append(used, reg[i]),
                     reg, img)

_predict(reg, img) ==
    IF reg = <<>> THEN ServerError("No model interpreters loaded")
    ELSE PredictLoop(1, <<>>, <<>>, reg, img)

-----------------------------------------------------------------------------
(* The predict() coroutine *)

\* The mutant of Yields: the handler is preempted between any two steps, as a
\* handler run on a thread pool would be.
YieldsAnywhere(p) == TRUE

\* predict() is "async def": it gives up the event loop only at its await and
\* when it returns or raises.
Yields(p) == p \in {"await_read", "done"}

CanRun(r) == running = 0 \/ running = r

\* The event loop after request r moved to position p
Loop(r, p) == IF Yields(p) THEN 0 ELSE r

\* The request arrives; the content-type check, then await file.read()
Receive(r, img, ct) ==
    /\ phase = "serving"
    /\ pc[r] = "new"
    /\ CanRun(r)
    /\ IF ct = "text/"
       THEN /\ pc' = [pc EXCEPT ![r] = "done"]
            /\ response' = [response EXCEPT ![r] = BadRequest("File must be an image")]
            /\ running' = Loop(r, "done")
            /\ UNCHANGED image
       ELSE /\ pc' = [pc EXCEPT ![r] = "await_read"]
            /\ image' = [image EXCEPT ![r] = img]
            /\ running' = Loop(r, "await_read")
            /\ UNCHANGED response
    /\ UNCHANGED <<envVars, _loaded_models, phase, startupError, tensorVars,
                   idx, predictions, models_used, healthReply>>

\* file.read() has returned: the empty-file check, then _predict up to its loop
ReadDone(r) ==
    /\ pc[r] = "await_read"
    /\ CanRun(r)
    /\ IF image[r].kind = "Empty"
       THEN /\ pc' = [pc EXCEPT ![r] = "done"]
            /\ response' = [response EXCEPT ![r] = BadRequest("Empty file")]
            /\ running' = Loop(r, "done")
            /\ UNCHANGED <<idx, predictions, models_used>>
       ELSE IF _loaded_models = <<>>
       THEN /\ pc' = [pc EXCEPT ![r] = "done"]
            /\ response' = [response EXCEPT ![r] = ServerError("No model interpreters loaded")]
            /\ running' = Loop(r, "done")
            /\ UNCHANGED <<idx, predictions, models_used>>
       ELSE /\ pc' = [pc EXCEPT ![r] = "set_tensor"]
            /\ idx' = [idx EXCEPT ![r] = 1]
            /\ predictions' = [predictions EXCEPT ![r] = <<>>]
            /\ models_used' = [models_used EXCEPT ![r] = <<>>]
            /\ running' = Loop(r, "set_tensor")
            /\ UNCHANGED response
    /\ UNCHANGED <<envVars, _loaded_models, phase, startupError, tensorVars,
                   image, healthReply>>

\* _run_inference up to interpreter.set_tensor: the image is decoded (which
\* raises on undecodable bytes) and written to the interpreter's input tensor.
SetTensor(r) ==
    /\ pc[r] = "set_tensor"
    /\ CanRun(r)
    /\ IF image[r].kind = "Corrupt"
       THEN /\ pc' = [pc EXCEPT ![r] = "done"]
            /\ response' = [response EXCEPT ![r] = ServerError("cannot identify image file")]
            /\ running' = Loop(r, "done")
            /\ UNCHANGED inTensor
       ELSE /\ inTensor' = [inTensor EXCEPT ![_loaded_models[idx[r]]] = image[r]]
            /\ pc' = [pc EXCEPT ![r] = "invoke"]
            /\ running' = Loop(r, "invoke")
            /\ UNCHANGED response
    /\ UNCHANGED <<envVars, _loaded_models, phase, startupError, outTensor,
                   image, idx, predictions, models_used, healthReply>>

\* interpreter.invoke(): the output tensor is computed from the input tensor,
\* or invoke raises and the exception leaves _predict and the handler.
Invoke(r) ==
    /\ pc[r] = "invoke"
    /\ CanRun(r)
    /\ LET m == _loaded_models[idx[r]] IN
       IF inTensor[m].out[m] = Raises
       THEN /\ pc' = [pc EXCEPT ![r] = "done"]
            /\ response' = [response EXCEPT ![r] = ServerError("invoke failed")]
            /\ running' = Loop(r, "done")
            /\ UNCHANGED outTensor
       ELSE /\ outTensor' = [outTensor EXCEPT ![m] = inTensor[m].out[m]]
            /\ pc' = [pc EXCEPT ![r] = "get_tensor"]
            /\ running' = Loop(r, "get_tensor")
            /\ UNCHANGED response
    /\ UNCHANGED <<envVars, _loaded_models, phase, startupError, inTensor,
                   image, idx, predictions, models_used, healthReply>>

\* interpreter.get_tensor and the two appends of the loop body
GetTensor(r) ==
    /\ pc[r] = "get_tensor"
    /\ CanRun(r)
    /\ LET m == _loaded_models[idx[r]]
           p == IF idx[r] < Len(_loaded_models) THEN "set_tensor" ELSE "aggregate"
       IN
        /\ predictions' = [predictions EXCEPT ![r] = Append(@, outTensor[m][1])]
        /\ models_used' = [models_used EXCEPT ![r] = Append(@, m)]
        /\ idx' = [idx EXCEPT ![r] = @ + 1]
        /\ pc' = [pc EXCEPT ![r] = p]
        /\ running' = Loop(r, p)
    /\ UNCHANGED <<envVars, _loaded_models, phase, startupError, tensorVars,
                   image, response, healthReply>>

\* The rest of _predict after the loop, and the return of predict()
Aggregate(r) ==
    /\ pc[r] = "aggregate"
    /\ CanRun(r)
    /\ response' = [response EXCEPT ![r] = ResultOf(predictions[r], models_used[r])]
    /\ pc' = [pc EXCEPT ![r] = "done"]
    /\ running' = Loop(r, "done")
    /\ UNCHANGED <<envVars, _loaded_models, phase, startupError, tensorVars,
                   image, idx, predictions, models_used, healthReply>>

Step(r) == ReadDone(r) \/ SetTensor(r) \/ Invoke(r) \/ GetTensor(r) \/ Aggregate(r)

-----------------------------------------------------------------------------
(* Specifications *)

\* The service with NumRequests clients uploading concurrently
Next ==
    \/ Startup
    \/ Health
    \/ \E r \in Requests, img \in Uploads, ct \in ContentTypes : Receive(r, img, ct)
    \/ \E r \in Requests : Step(r)

Spec == Init /\ [][Next]_vars

\* The service with one client, uploading any image of WideUploads
NextOne ==
    \/ Startup
    \/ Health
    \/ \E img \in WideUploads, ct \in ContentTypes : Receive(1, img, ct)
    \/ Step(1)

SpecOne == Init /\ [][NextOne]_vars

-----------------------------------------------------------------------------
(* Vocabulary of the properties, stated on the files and the uploads *)

\* The file of m is present and a permitted backend loads it
Loads(m) ==
    \/ files[m] = "tflite"
    \/ files[m] = "tensorflow" /\ ALLOW_TENSORFLOW_FALLBACK

\* The file of m is present and no permitted backend loads it
FailsToLoad(m) == files[m] # "missing" /\ ~Loads(m)

RECURSIVE Keep(_, _)
Keep(seq, S) ==
    IF seq = <<>> THEN <<>>
    ELSE IF Head(seq) \in S THEN <<Head(seq)>> \o Keep(Tail(seq), S)
    ELSE Keep(Tail(seq), S)

\* The models that load, in configuration order
Loadable == Keep(MODEL_PATHS, {m \in Models : Loads(m)})

\* The loaded models whose inference returns a score for img, in registry order
Survivors(img) ==
    Keep(_loaded_models, {m \in Models : img.kind = "Valid" /\ img.out[m] # Raises})

RECURSIVE ScoreTotal(_, _)
ScoreTotal(used, img) ==
    IF used = <<>> THEN 0 ELSE img.out[Head(used)][1] + ScoreTotal(Tail(used), img)

Abs(x) == IF x < 0 THEN 0 - x ELSE x

\* c is x / d rounded to the nearest integer (d > 0)
Nearest(c, x, d) == 2 * Abs(c * d - x) <= d

Answered(r) == pc[r] = "done" /\ image[r].kind = "Valid"

Succeeded(r) == pc[r] = "done" /\ response[r].status = 200

InRegistry(m) == \E i \in 1..Len(_loaded_models) : _loaded_models[i] = m

-----------------------------------------------------------------------------
(* C1 *)

\* C1: when one loaded model's inference raises and another loaded model
\* returns a score, the request succeeds and modelsUsed is exactly the models
\* that returned a score.
C1_PartialDegradation ==
    \A r \in Requests :
        ( /\ Answered(r)
          /\ Len(_loaded_models) >= 2
          /\ \E m \in Models : InRegistry(m) /\ image[r].out[m] = Raises
          /\ \E m \in Models : InRegistry(m) /\ image[r].out[m] # Raises )
        => /\ response[r].status = 200
           /\ response[r].modelsUsed = Survivors(image[r])

(* C2 *)

\* C2: when the registry is non-empty and every loaded model's inference
\* fails, predict ends with the error NoPredictionsAvailable.
C2_NoPredictionsAvailable ==
    \A r \in Requests :
        ( /\ Answered(r)
          /\ _loaded_models # <<>>
          /\ Survivors(image[r]) = <<>> )
        => /\ response[r].status # 200
           /\ response[r].detail = "NoPredictionsAvailable"

(* C3 *)

\* C3: a successful result is "Cataract" exactly when the mean of the scores
\* of modelsUsed is below 0.7, and "Normal" otherwise (0.7 itself included).
C3_ClassName ==
    \A r \in Requests :
        Succeeded(r) =>
            LET total == ScoreTotal(response[r].modelsUsed, image[r])
                n == Len(response[r].modelsUsed)
            IN  /\ response[r].className \in {"Cataract", "Normal"}
                /\ response[r].className = "Cataract" <=> 10 * total < 7 * Scale * n

\* A successful result whose mean is exactly 0.7 and is "Normal"
C3_Witness ==
    \E r \in Requests :
        /\ Succeeded(r)
        /\ 10 * ScoreTotal(response[r].modelsUsed, image[r])
             = 7 * Scale * Len(response[r].modelsUsed)
        /\ response[r].className = "Normal"

(* C4 *)

\* C4 as stated: the confidence of every successful result is in [0,100].
C4_ConfidenceInRange ==
    \A r \in Requests :
        Succeeded(r) => response[r].confidence >= 0 /\ response[r].confidence <= 100 * 100

\* C4 amended: confidence is (1 - mean) * 100 for "Cataract" and mean * 100 for
\* "Normal", rounded to 2 decimals; it is never negative, and it is at most
\* 100 whenever the mean lies in [0,1].
C4_Confidence ==
    \A r \in Requests :
        Succeeded(r) =>
            LET total == ScoreTotal(response[r].modelsUsed, image[r])
                n == Len(response[r].modelsUsed)
                c == response[r].confidence
            IN  /\ response[r].className = "Cataract"
                     => Nearest(c, n * Scale - total, n * Unit4)
                /\ response[r].className = "Normal"
                     => Nearest(c, total, n * Unit4)
                /\ c >= 0
                /\ (0 <= total /\ total <= n * Scale) => c <= 100 * 100

\* A "Cataract" result whose confidence was changed by the rounding
C4_Witness ==
    \E r \in Requests :
        /\ Succeeded(r)
        /\ response[r].className = "Cataract"
        /\ LET total == ScoreTotal(response[r].modelsUsed, image[r])
               n == Len(response[r].modelsUsed)
           IN  /\ 0 <= total /\ total <= n * Scale
               /\ response[r].confidence * n * Unit4 # n * Scale - total

(* C5 *)

\* C5: in a successful result, modelsUsed is the contributing models in
\* registry order, prediction is the unweighted mean of their scores (to 4
\* decimals), ensembleMode says whether there is more than one; 0.4 and 0.8
\* give 0.6, "Cataract", 40.00, two models, ensembleMode.
C5_Mean ==
    \A r \in Requests :
        Succeeded(r) =>
            LET used == response[r].modelsUsed
                total == ScoreTotal(used, image[r])
            IN  /\ used = Survivors(image[r])
                /\ used # <<>>
                /\ Nearest(response[r].prediction, total, Len(used) * Unit4)
                /\ response[r].ensembleMode <=> Len(used) > 1
                /\ ( /\ Len(used) = 2
                     /\ image[r].out[used[1]] = <<40000>>
                     /\ image[r].out[used[2]] = <<80000>> )
                   => /\ response[r].prediction = 6000
                      /\ response[r].className = "Cataract"
                      /\ response[r].confidence = 4000
                      /\ response[r].ensembleMode

\* The two models have scored 0.4 and 0.8 and the ensemble result is out
C5_Witness ==
    \E r \in Requests :
        /\ Succeeded(r)
        /\ Len(response[r].modelsUsed) = 2
        /\ image[r].out[response[r].modelsUsed[1]] = <<40000>>
        /\ image[r].out[response[r].modelsUsed[2]] = <<80000>>
        /\ response[r].prediction = 6000
        /\ response[r].ensembleMode

(* C6 *)

\* C6: a model whose file is present but loads with no permitted backend is
\* dropped, and startup succeeds with the models that did load, provided at
\* least one does.
C6_LoadFailureDropped ==
    ( /\ phase # "created"
      /\ \E m \in Models : FailsToLoad(m)
      /\ \E m \in Models : Loads(m) )
    => /\ phase = "serving"
       /\ _loaded_models = Loadable

(* C7 *)

\* C7: when no configured model file is present and loads, startup fails with
\* the no-models error, no request is ever answered with a prediction and
\* /health never reports a healthy service.
C7_NoModels ==
    ( /\ phase # "created"
      /\ \A m \in Models : ~Loads(m) )
    => /\ phase = "failed"
       /\ startupError = "NoModelsLoaded"
       /\ _loaded_models = <<>>
       /\ \A r \in Requests : response[r].status # 200
       /\ healthReply.status # "healthy"

(* C8 *)

\* C8: a missing file is skipped; when exactly one of the two files is present
\* and loads, startup succeeds, the registry is that one model, and /health
\* and every successful predict report ensembleMode false and that one name.
C8_SingleModelMode ==
    \A m \in Models :
        ( /\ phase # "created"
          /\ Loads(m)
          /\ \A o \in Models \ {m} : files[o] = "missing" )
        => /\ phase = "serving"
           /\ startupError = "none"
           /\ _loaded_models = <<m>>
           /\ healthReply.status = "healthy"
                => ~healthReply.ensembleMode /\ healthReply.modelsLoaded = <<m>>
           /\ \A r \in Requests :
                Succeeded(r) => ~response[r].ensembleMode /\ response[r].modelsUsed = <<m>>

\* One file missing, the other loaded; /health and a predict have answered
C8_Witness ==
    \E m \in Models :
        /\ Loads(m)
        /\ \A o \in Models \ {m} : files[o] = "missing"
        /\ phase = "serving"
        /\ healthReply.status = "healthy"
        /\ \E r \in Requests : Succeeded(r) /\ response[r].modelsUsed = <<m>>

(* C9 *)

\* C9: once startup has succeeded the registry is non-empty and holds the
\* models that load in configuration order; after a failed startup it is
\* empty; and no step other than startup changes it.
C9_RegistryInvariant ==
    /\ [](phase = "serving" => _loaded_models # <<>> /\ _loaded_models = Loadable)
    /\ [](phase = "failed" => _loaded_models = <<>>)
    /\ [][phase # "created" => _loaded_models' = _loaded_models]_vars

\* Startup has succeeded, /health has answered and a predict has been answered
C9_Witness ==
    /\ phase = "serving"
    /\ _loaded_models # <<>>
    /\ healthReply.status = "healthy"
    /\ \E r \in Requests : pc[r] = "done"

(* C10 *)

InInference(r) == pc[r] \in {"set_tensor", "invoke", "get_tensor", "aggregate"}

\* What request r gets when it runs alone
Alone(r) ==
    IF image[r].kind = "Empty" THEN BadRequest("Empty file")
    ELSE _predict(_loaded_models, image[r])

\* C10: the steps of two requests on the interpreters are never interleaved:
\* at most one request is inside _predict, between set_tensor and get_tensor
\* the tensors of the interpreter hold that request's image and its score,
\* and every answer is the one the request would get running alone.
C10_NoInterleaving ==
    /\ \A r1, r2 \in Requests : InInference(r1) /\ InInference(r2) => r1 = r2
    /\ \A r \in Requests :
        /\ pc[r] \in {"invoke", "get_tensor"}
             => inTensor[_loaded_models[idx[r]]] = image[r]
        /\ pc[r] = "get_tensor"
             => outTensor[_loaded_models[idx[r]]] = image[r].out[_loaded_models[idx[r]]]
        /\ (pc[r] = "done" /\ image[r].kind # "None") => response[r] = Alone(r)

\* Two requests with different images are in flight: one is inside _predict
\* with its own score of the first model and of the second in the output
\* tensor, while the upload of the other has been received
C10_Witness ==
    \E r1, r2 \in Requests :
        /\ r1 # r2
        /\ pc[r1] = "get_tensor"
        /\ idx[r1] = 2
        /\ pc[r2] = "await_read"
        /\ image[r2].kind = "Valid"
        /\ image[r1] # image[r2]
        /\ predictions[r1] = image[r1].out[_loaded_models[1]]
        /\ outTensor[_loaded_models[2]] = image[r1].out[_loaded_models[2]]

====
